---- MODULE Spec2Model ----
(***************************************************************************)
(* A model of PoolingService (src/src/services/poolingService.ts): the     *)
(* registry of delivery pools, the intake of a request (join an existing   *)
(* pool or create a new one), the removal of a request, the compatibility  *)
(* scorer, the route optimizer and the cost figures of a pool.             *)
(*                                                                         *)
(* Numbers.  The service computes in floating point; the model computes    *)
(* the same expressions exactly, in integers of a fixed unit:              *)
(*   distance       metres                                                 *)
(*   bearing, angle hundredths of a degree                                 *)
(*   time           thousandths of a minute                                *)
(*   money          1/1200 of a rupee (so that a trip cost divides exactly *)
(*                  by 1, 2, 3 and 4 customers)                            *)
(*   score          1/ScoreScale                                           *)
(***************************************************************************)
EXTENDS Integers, Sequences, FiniteSets, TLC

\* ------------------------------------------------------------------ bounds
\* Request ids are 1..MaxReqId.
MaxReqId == 2
\* Pool ids handed out by createNewPool are 1..MaxPoolId: at most MaxPoolId
\* pools are ever created in one behaviour.
MaxPoolId == 3
\* In the specification that lets the search select any pool with room
\* (SpecOps): the number of members over all pools.
MaxMembers == 4
\* In the specification of the scorer (SpecScore): the members of the pool.
MaxScoreMembers == 3
MaxCallers == 2
MaxRouteMembers == 3

\* ------------------------------------------------------------------ units
Metres == 10 * 100          \* metres in a kilometre
MilliMin == 10 * 100        \* time units in a minute
RupeeUnits == 12 * 100      \* money units in a rupee
ProxScale == 5 * Metres     \* a proximity score is a count of 1/ProxScale
DirScale == 90 * 100        \* a direction score is a count of 1/DirScale
ScoreScale == 10 * 45000    \* a composite score is a count of 1/ScoreScale

Max(a, b) == IF a >= b THEN a ELSE b
Abs(a) == IF a >= 0 THEN a ELSE 0 - a

\* ------------------------------------------------------------- the inputs
\* Four coordinates (lat, lng):
\*   1  A  (19.0760, 72.8777)
\*   2  C  (19.0800, 72.8800)   506 m from A
\*   3  N  (19.0896, 72.8777)   1.5 km due north of A
\*   4  F  (37.0760, 72.8777)   2000 km due north of A
Points == 1 .. 4
Pickups == {1, 2}
Dropoffs == {3, 4}
ReqIds == 1 .. MaxReqId

\* PoolRequest (the fields the service reads).  createdAt is read only by
\* optimizeRoute's sort of two or more requests.
Requests ==
    [id : ReqIds, pickup : Pickups, dropoff : Dropoffs, createdAt : {0}]

NoRequest == [id |-> 0, pickup |-> 0, dropoff |-> 0, createdAt |-> 0]

\* ------------------------------------------------------- geometry (265-274)
\* calculateDistance: the haversine distance (R = 6371 km) of the four
\* coordinates, rounded to the metre.
HaversineM ==
    << <<0, 506, 1512, 2001509>>,
       <<506, 0, 1094, 2001064>>,
       <<1512, 1094, 0, 1999996>>,
       <<2001509, 2001064, 1999996, 0>> >>

calculateDistance(point1, point2) == HaversineM[point1][point2]

\* calculateBearing: the initial bearing in [0, 360), in hundredths of a
\* degree, of the four coordinates (atan2(0, 0) = 0 for a point to itself).
BearingCd ==
    << <<0, 2852, 0, 0>>,
       <<20852, 0, 34724, 35999>>,
       <<18000, 16724, 0, 0>>,
       <<18000, 17999, 18000, 0>> >>

calculateBearing(point1, point2) == BearingCd[point1][point2]

\* --------------------------------------------------- the scorer (92-138)
\* Math.max(0, 1 - (distance / 5)), in 1/ProxScale.
proximityScore_NoClamp(distance) == ProxScale - distance

proximityScore(distance) == Max(0, ProxScale - distance)

\* calculateDirectionSimilarity, in 1/DirScale.
calculateDirectionSimilarity(req1, req2) ==
    LET bearing1 == calculateBearing(req1.pickup, req1.dropoff)
        bearing2 == calculateBearing(req2.pickup, req2.dropoff)
        diff == Abs(bearing1 - bearing2)
        angleDiff == IF diff > 180 * 100 THEN 360 * 100 - diff ELSE diff
    IN  Max(0, DirScale - angleDiff)

\* requestScore of one member: pickup 30%, dropoff 30%, direction 40%, in
\* 1/ScoreScale (ScoreScale = 10 * lcm(ProxScale, DirScale)).
requestScore_Weights(existingRequest, request) ==
    LET pickupScore ==
            proximityScore(calculateDistance(existingRequest.pickup, request.pickup))
        dropoffScore ==
            proximityScore(calculateDistance(existingRequest.dropoff, request.dropoff))
        directionScore == calculateDirectionSimilarity(existingRequest, request)
    IN  3 * 9 * pickupScore + 3 * 9 * dropoffScore + 5 * 5 * directionScore

requestScore(existingRequest, request) ==
    LET pickupScore ==
            proximityScore(calculateDistance(existingRequest.pickup, request.pickup))
        dropoffScore ==
            proximityScore(calculateDistance(existingRequest.dropoff, request.dropoff))
        directionScore == calculateDirectionSimilarity(existingRequest, request)
    IN  3 * 9 * pickupScore + 3 * 9 * dropoffScore + 4 * 5 * directionScore

RECURSIVE SumScores(_, _, _)
SumScores(requests, request, i) ==
    IF i > Len(requests) THEN 0
    ELSE requestScore(requests[i], request) + SumScores(requests, request, i + 1)

\* calculateRouteCompatibility: the mean of the members' scores, 0 for no
\* member.  The division is exact up to the floor, and a floor does not
\* change a comparison with a whole number of 1/ScoreScale.
calculateRouteCompatibility(pool, request) ==
    LET totalScore == SumScores(pool.requests, request, 1)
        comparisons == Len(pool.requests)
    IN  IF comparisons > 0 THEN totalScore \div comparisons ELSE 0

\* ------------------------------------------------ time and cost (158-178)
calculateAdditionalTime_Short(pool, request) == 2 * 5 * MilliMin

calculateAdditionalTime(pool, request) ==
    LET additionalStops == 2
        timePerStop == 5
        routeDeviation == 10
    IN  (additionalStops * timePerStop + routeDeviation) * MilliMin

calculatePoolCost(pool, request) ==
    LET baseFare == 50 * RupeeUnits
        totalDistance == pool.totalDistance + 2 * Metres
        distanceCost == totalDistance * ((10 * RupeeUnits) \div Metres)
        totalCost == baseFare + distanceCost
    IN  totalCost \div (Len(pool.requests) + 1)

\* ------------------------------------------- the route optimizer (223-260)
\* A stop of a route.  The stops optimizeRoute builds for two or more
\* requests carry a type and the request's id; the stops of a single request
\* are its pickup and dropoff objects themselves.
PlainStop(point) == [loc |-> point, type |-> "none", requestId |-> 0]
PickupStop(r) == [loc |-> r.pickup, type |-> "pickup", requestId |-> r.id]
DropoffStop(r) == [loc |-> r.dropoff, type |-> "dropoff", requestId |-> r.id]

\* [...requests].sort((a, b) => a.createdAt - b.createdAt): a stable sort
\* (insertion of each request after the last one not later than it).
RECURSIVE InsertByTime(_, _)
InsertByTime(sorted, r) ==
    IF sorted = << >> THEN <<r>>
    ELSE IF sorted[Len(sorted)].createdAt <= r.createdAt THEN Append(sorted, r)
    ELSE Append(InsertByTime(SubSeq(sorted, 1, Len(sorted) - 1), r),
                sorted[Len(sorted)])

\* The pickups in membership order: no sort.
SortByTime_Unsorted(requests) == requests

RECURSIVE SortByTime(_)
SortByTime(requests) ==
    IF requests = << >> THEN << >>
    ELSE InsertByTime(SortByTime(SubSeq(requests, 1, Len(requests) - 1)),
                      requests[Len(requests)])

\* The inner loop (243-252): the index of the first dropoff at the least
\* distance from currentLocation (a later one wins only if strictly nearer).
NearestIndex_LastWins(currentLocation, remainingDropoffs) ==
    CHOOSE i \in 1 .. Len(remainingDropoffs) :
        /\ \A j \in 1 .. Len(remainingDropoffs) :
               calculateDistance(currentLocation, remainingDropoffs[i].loc)
                   <= calculateDistance(currentLocation, remainingDropoffs[j].loc)
        /\ \A j \in i + 1 .. Len(remainingDropoffs) :
               calculateDistance(currentLocation, remainingDropoffs[j].loc)
                   > calculateDistance(currentLocation, remainingDropoffs[i].loc)

NearestIndex(currentLocation, remainingDropoffs) ==
    CHOOSE i \in 1 .. Len(remainingDropoffs) :
        /\ \A j \in 1 .. Len(remainingDropoffs) :
               calculateDistance(currentLocation, remainingDropoffs[i].loc)
                   <= calculateDistance(currentLocation, remainingDropoffs[j].loc)
        /\ \A j \in 1 .. i - 1 :
               calculateDistance(currentLocation, remainingDropoffs[j].loc)
                   > calculateDistance(currentLocation, remainingDropoffs[i].loc)

RemoveAt(s, i) == SubSeq(s, 1, i - 1) \o SubSeq(s, i + 1, Len(s))

\* The while loop (241-257).
RECURSIVE VisitDropoffs(_, _)
VisitDropoffs(currentLocation, remainingDropoffs) ==
    IF remainingDropoffs = << >> THEN << >>
    ELSE LET nearestIndex == NearestIndex(currentLocation, remainingDropoffs)
             nearestDropoff == remainingDropoffs[nearestIndex]
         IN  <<nearestDropoff>>
                 \o VisitDropoffs(nearestDropoff.loc,
                                  RemoveAt(remainingDropoffs, nearestIndex))

optimizeRoute(requests) ==
    IF Len(requests) = 1
    THEN <<PlainStop(requests[1].pickup), PlainStop(requests[1].dropoff)>>
    ELSE LET sortedRequests == SortByTime(requests)
             pickups == [i \in 1 .. Len(sortedRequests) |-> PickupStop(sortedRequests[i])]
             currentLocation == pickups[Len(pickups)].loc
             remainingDropoffs == [i \in 1 .. Len(requests) |-> DropoffStop(requests[i])]
         IN  pickups \o VisitDropoffs(currentLocation, remainingDropoffs)

\* -------------------------------------------- the cost figures (279-313)
RECURSIVE calculateTotalDistance(_)
calculateTotalDistance(route) ==
    IF Len(route) < 2 THEN 0
    ELSE calculateDistance(route[1].loc, route[2].loc)
             + calculateTotalDistance(Tail(route))

calculateEstimatedTime(route, customerCount) ==
    LET distance == calculateTotalDistance(route)
        baseTime == distance * ((2 * MilliMin) \div Metres)
        stopTime == (customerCount * 2) * 5 * MilliMin
    IN  baseTime + stopTime

RECURSIVE IndividualCosts(_)
IndividualCosts(requests) ==
    IF requests = << >> THEN 0
    ELSE LET individualDistance ==
                 calculateDistance(requests[1].pickup, requests[1].dropoff)
         IN  50 * RupeeUnits + individualDistance * ((10 * RupeeUnits) \div Metres)
                 + IndividualCosts(Tail(requests))

calculateSavings_NoGuard(pool) ==
    IndividualCosts(pool.requests) - pool.costPerCustomer * Len(pool.requests)

calculateSavings(pool) ==
    IF Len(pool.requests) = 1 THEN 0
    ELSE LET totalIndividualCost == IndividualCosts(pool.requests)
             totalPoolCost == pool.costPerCustomer * Len(pool.requests)
         IN  totalIndividualCost - totalPoolCost

\* ------------------------------------------------------------- the state
VARIABLES
    activeRequests,  \* Map<string, PoolRequest> (37): a function on the ids set
    pools,           \* Map<string, PoolMatch> (38), in insertion order
    nextPoolId,      \* the pool ids handed out so far are 1 .. nextPoolId - 1
    lastOp,          \* the last call: its name, its argument and what it returned
    inflight         \* the calls that have begun and not returned

vars == <<activeRequests, pools, nextPoolId, lastOp, inflight>>

PoolIds == 1 .. MaxPoolId

\* What getPool returns for an unknown id.
Null == [id |-> 0]

PoolIndex(ps, poolId) ==
    IF \E i \in 1 .. Len(ps) : ps[i].id = poolId
    THEN CHOOSE i \in 1 .. Len(ps) : ps[i].id = poolId
    ELSE 0

PoolKeys(ps) == {ps[i].id : i \in 1 .. Len(ps)}

HasMember(pool, requestId) ==
    \E k \in 1 .. Len(pool.requests) : pool.requests[k].id = requestId

\* ------------------------------------------------ findMatchingPool (60-86)
\* The four filters of one pool, in the order the loop applies them.
Qualifies_RequestWait(pool, request) ==
    LET maxWaitTimeMinutes == request.maxWaitTime * MilliMin
    IN  /\ ~(Len(pool.requests) >= 3)
        /\ ~(calculateAdditionalTime(pool, request) > maxWaitTimeMinutes)
        /\ ~(calculateRouteCompatibility(pool, request) < 7 * (ScoreScale \div 10))
        /\ calculatePoolCost(pool, request) * 10 < pool.costPerCustomer * 11

Qualifies(pool, request) ==
    LET maxWaitTimeMinutes == 15 * MilliMin
    IN  /\ ~(Len(pool.requests) >= 3)
        /\ ~(calculateAdditionalTime(pool, request) > maxWaitTimeMinutes)
        /\ ~(calculateRouteCompatibility(pool, request) < 7 * (ScoreScale \div 10))
        /\ calculatePoolCost(pool, request) * 10 < pool.costPerCustomer * 11

\* The index in `ps` of the pool findMatchingPool returns, 0 for null.
findMatchingPool_FirstPool(ps, request) == IF Len(ps) > 0 THEN 1 ELSE 0

findMatchingPool(ps, request) ==
    IF \E i \in 1 .. Len(ps) : Qualifies(ps[i], request)
    THEN CHOOSE i \in 1 .. Len(ps) :
             /\ Qualifies(ps[i], request)
             /\ \A j \in 1 .. i - 1 : ~Qualifies(ps[j], request)
    ELSE 0

\* ----------------------------------------------- addToExistingPool (183-198)
\* The pool after the request joined it.  calculatePoolCost runs after the
\* push, on the new membership and the new totalDistance.
RefreshJoined(p1, request) ==
    LET p2 == [p1 EXCEPT !.route = optimizeRoute(p1.requests)]
        p3 == [p2 EXCEPT !.totalDistance = calculateTotalDistance(p2.route)]
        p4 == [p3 EXCEPT !.estimatedTime =
                   calculateEstimatedTime(p3.route, Len(p3.requests))]
        p5 == [p4 EXCEPT !.costPerCustomer = calculatePoolCost(p4, request)]
    IN  [p5 EXCEPT !.savings = calculateSavings(p5)]

JoinedPool(pool, request) ==
    RefreshJoined([pool EXCEPT !.requests = Append(@, request)], request)

addToExistingPool(ps, i, request) == [ps EXCEPT ![i] = JoinedPool(ps[i], request)]

\* --------------------------------------------------- createNewPool (203-218)
\* poolId (204): `pool_${Date.now()}_${Math.random()...}`, an id no pool
\* had before; the model hands out 1, 2, 3, ...
newPoolId_Reused(ps, next) == Len(ps) + 1

newPoolId(ps, next) == next

\* createNewPool with the time and the fare computed as a join computes them.
createNewPool_Computed(poolId, request) ==
    LET route == <<PlainStop(request.pickup), PlainStop(request.dropoff)>>
        totalDistance == calculateDistance(request.pickup, request.dropoff)
    IN  [id |-> poolId,
         requests |-> <<request>>,
         route |-> route,
         totalDistance |-> totalDistance,
         estimatedTime |-> calculateEstimatedTime(route, 1),
         costPerCustomer |->
             50 * RupeeUnits + totalDistance * ((10 * RupeeUnits) \div Metres),
         savings |-> 0]

createNewPool(poolId, request) ==
    [id |-> poolId,
     requests |-> <<request>>,
     route |-> <<PlainStop(request.pickup), PlainStop(request.dropoff)>>,
     totalDistance |-> calculateDistance(request.pickup, request.dropoff),
     estimatedTime |-> 30 * MilliMin,
     costPerCustomer |-> 100 * RupeeUnits,
     savings |-> 0]

\* -------------------------------------------------- removeFromPool (332-354)
\* The refresh of lines 345-349 without line 345: the route stays as it was.
RefreshShrunk_KeepRoute(p1) ==
    LET p3 == [p1 EXCEPT !.totalDistance = calculateTotalDistance(p1.route)]
        p4 == [p3 EXCEPT !.estimatedTime =
                   calculateEstimatedTime(p3.route, Len(p3.requests))]
        p5 == [p4 EXCEPT !.costPerCustomer =
                   (p4.totalDistance * ((10 * RupeeUnits) \div Metres))
                       \div Len(p4.requests)]
    IN  [p5 EXCEPT !.savings = calculateSavings(p5)]

\* The pool after its member at index k was spliced out (344-349).
RefreshShrunk(p1) ==
    LET p2 == [p1 EXCEPT !.route = optimizeRoute(p1.requests)]
        p3 == [p2 EXCEPT !.totalDistance = calculateTotalDistance(p2.route)]
        p4 == [p3 EXCEPT !.estimatedTime =
                   calculateEstimatedTime(p3.route, Len(p3.requests))]
        p5 == [p4 EXCEPT !.costPerCustomer =
                   (p4.totalDistance * ((10 * RupeeUnits) \div Metres))
                       \div Len(p4.requests)]
    IN  [p5 EXCEPT !.savings = calculateSavings(p5)]

ShrunkPool(pool, k) == RefreshShrunk([pool EXCEPT !.requests = RemoveAt(@, k)])

\* The first pool, in insertion order, with a member of that id (0: none).
FirstPoolWith(ps, requestId) ==
    IF \E i \in 1 .. Len(ps) : HasMember(ps[i], requestId)
    THEN CHOOSE i \in 1 .. Len(ps) :
             /\ HasMember(ps[i], requestId)
             /\ \A j \in 1 .. i - 1 : ~HasMember(ps[j], requestId)
    ELSE 0

\* findIndex (337): the first member of that id.
RequestIndex(pool, requestId) ==
    CHOOSE k \in 1 .. Len(pool.requests) :
        /\ pool.requests[k].id = requestId
        /\ \A j \in 1 .. k - 1 : pool.requests[j].id # requestId

\* The registry after removeFromPool(requestId).
removedFromPools_KeepEmpty(ps, requestId) ==
    LET i == FirstPoolWith(ps, requestId)
    IN  IF i = 0 THEN ps
        ELSE LET k == RequestIndex(ps[i], requestId)
             IN  IF Len(ps[i].requests) = 1
                 THEN [ps EXCEPT ![i].requests = << >>]
                 ELSE [ps EXCEPT ![i] = ShrunkPool(ps[i], k)]

\* The registry after removeFromPool(requestId) without the test of line 338:
\* for an id the first pool does not hold, splice(-1, 1) takes its last member.
removedFromPools_NoCheck(ps, requestId) ==
    LET i == IF FirstPoolWith(ps, requestId) # 0
             THEN FirstPoolWith(ps, requestId)
             ELSE IF ps = << >> THEN 0 ELSE 1
    IN  IF i = 0 THEN ps
        ELSE LET k == IF HasMember(ps[i], requestId)
                      THEN RequestIndex(ps[i], requestId)
                      ELSE Len(ps[i].requests)
             IN  IF Len(ps[i].requests) = 1
                 THEN RemoveAt(ps, i)
                 ELSE [ps EXCEPT ![i] = ShrunkPool(ps[i], k)]

removedFromPools(ps, requestId) ==
    LET i == FirstPoolWith(ps, requestId)
    IN  IF i = 0 THEN ps
        ELSE LET k == RequestIndex(ps[i], requestId)
             IN  IF Len(ps[i].requests) = 1
                 THEN RemoveAt(ps, i)
                 ELSE [ps EXCEPT ![i] = ShrunkPool(ps[i], k)]

\* this.activeRequests.delete(requestId) (333).
activeRequestsDelete_Kept(requests, requestId) == requests

activeRequestsDelete(requests, requestId) ==
    [k \in DOMAIN requests \ {requestId} |-> requests[k]]

\* ------------------------------------------------------ the queries (318-327)
getPool(ps, poolId) ==
    IF PoolIndex(ps, poolId) # 0 THEN ps[PoolIndex(ps, poolId)] ELSE Null

getActivePools(ps) == ps

\* this.pools.set(poolId, pool) (196, 216): a new key goes last, a key the
\* map holds keeps its place.
poolsSet_Dropped(ps, pool) == ps

\* The pool stored in a map of its own, in place of the registry.
poolsSet_NewMap(ps, pool) == <<pool>>

poolsSet(ps, pool) ==
    IF PoolIndex(ps, pool.id) # 0
    THEN [ps EXCEPT ![PoolIndex(ps, pool.id)] = pool]
    ELSE Append(ps, pool)

\* ------------------------------------------------------------ the actions
\* What a call that threw has in place of a returned number.
Thrown == 0 - 1

\* ret: the number returned (a pool id, a score), 0 for none, Thrown for a
\* call that threw.  For removeFromPool, which returns nothing, ret is the
\* number of members it spliced out of a pool.
Call(op, request, id, ret, retPool, retPools) ==
    [op |-> op, req |-> request, id |-> id,
     ret |-> ret, retPool |-> retPool, retPools |-> retPools]

\* No call has begun and not returned.
Idle == << >>

Init ==
    /\ activeRequests = << >>
    /\ pools = << >>
    /\ nextPoolId = 1
    /\ lastOp = Call("init", NoRequest, 0, 0, Null, << >>)
    /\ inflight = Idle

\* addPoolRequest (43-54): what the call does to the service.
AddPoolRequestCall(request) ==
    /\ nextPoolId <= MaxPoolId
    /\ activeRequests' = (request.id :> request) @@ activeRequests
    /\ LET matchingPool == findMatchingPool(pools, request)
       IN  IF matchingPool # 0
           THEN LET poolId == pools[matchingPool].id
                    i == PoolIndex(pools, poolId)
                IN  IF i = 0
                    THEN \* throw new Error('Pool not found') (185)
                         /\ pools' = pools
                         /\ nextPoolId' = nextPoolId
                         /\ lastOp' = Call("addPoolRequest", request, request.id,
                                           Thrown, Null, << >>)
                    ELSE /\ pools' = addToExistingPool(pools, i, request)
                         /\ nextPoolId' = nextPoolId
                         /\ lastOp' = Call("addPoolRequest", request, request.id,
                                           poolId, Null, << >>)
           ELSE LET poolId == newPoolId(pools, nextPoolId)
                IN  /\ pools' = poolsSet(pools, createNewPool(poolId, request))
                    /\ nextPoolId' = nextPoolId + 1
                    /\ lastOp' = Call("addPoolRequest", request, request.id,
                                      poolId, Null, << >>)

AddPoolRequest(request) ==
    /\ AddPoolRequestCall(request)
    /\ inflight' = inflight

\* removeFromPool (332-354).
RemoveFromPool(requestId) ==
    /\ activeRequests' = activeRequestsDelete(activeRequests, requestId)
    /\ pools' = removedFromPools(pools, requestId)
    /\ nextPoolId' = nextPoolId
    /\ inflight' = inflight
    /\ lastOp' = Call("removeFromPool", NoRequest, requestId,
                      IF FirstPoolWith(pools, requestId) # 0 THEN 1 ELSE 0,
                      Null, << >>)

\* getPool (318-320).
GetPool(poolId) ==
    /\ lastOp' = Call("getPool", NoRequest, poolId, 0, getPool(pools, poolId), << >>)
    /\ UNCHANGED <<activeRequests, pools, nextPoolId, inflight>>

\* getActivePools (325-327).
GetActivePools ==
    /\ lastOp' = Call("getActivePools", NoRequest, 0, 0, Null, getActivePools(pools))
    /\ UNCHANGED <<activeRequests, pools, nextPoolId, inflight>>

Next ==
    \/ \E request \in Requests : AddPoolRequest(request)
    \/ \E requestId \in ReqIds : RemoveFromPool(requestId)
    \/ \E poolId \in PoolIds : GetPool(poolId)
    \/ GetActivePools

\* The service as its callers drive it: any sequence of the four public calls.
Spec == Init /\ [][Next]_vars

\* --------------------------------------------------- the join step, driven
\* addPoolRequest on its join path (44, 50) with the pool the search selects
\* left open: any pool with room.  findMatchingPool selects none in any state
\* the four calls reach (calculateAdditionalTime is 20 minutes against a limit
\* of 15), so what the join step and the removal from a pool of two or three
\* do is checked on the registries this action builds.
RECURSIVE Members(_)
Members(ps) ==
    IF ps = << >> THEN 0 ELSE Len(ps[1].requests) + Members(Tail(ps))

\* The requests of SpecOps: two ids, one pickup, a near and a far dropoff.
OpsRequests ==
    [id : {1, 2}, pickup : {1}, dropoff : Dropoffs, createdAt : {0}]

JoinPool(i, request) ==
    /\ i \in 1 .. Len(pools)
    /\ Len(pools[i].requests) < 3
    /\ Members(pools) < MaxMembers
    /\ activeRequests' = (request.id :> request) @@ activeRequests
    /\ pools' = addToExistingPool(pools, i, request)
    /\ nextPoolId' = nextPoolId
    /\ inflight' = inflight
    /\ lastOp' = Call("join", request, request.id, pools[i].id, Null, << >>)

OpsAdd(request) ==
    /\ Members(pools) < MaxMembers
    /\ AddPoolRequest(request)

NextOps ==
    \/ \E request \in OpsRequests : OpsAdd(request)
    \/ \E i \in PoolIds, request \in OpsRequests : JoinPool(i, request)
    \/ \E requestId \in {1, 2} : RemoveFromPool(requestId)

SpecOps == Init /\ [][NextOps]_vars

\* ----------------------------------------------------- the scorer, driven
\* calculateRouteCompatibility applied to a pool of 1 .. MaxScoreMembers
\* members and a candidate: any of the four points as pickup, and A, N or F
\* as dropoff (a request from A to A has no direction: bearing 0).
ScoreRequests ==
    [id : {1}, pickup : Points, dropoff : {1, 3, 4}, createdAt : {0}]

RECURSIVE BuildPool(_)
BuildPool(members) ==
    IF Len(members) = 1 THEN createNewPool(1, members[1])
    ELSE JoinedPool(BuildPool(SubSeq(members, 1, Len(members) - 1)),
                    members[Len(members)])

InitScore ==
    /\ activeRequests = << >>
    /\ \E n \in 1 .. MaxScoreMembers :
           \E members \in [1 .. n -> ScoreRequests] : pools = <<BuildPool(members)>>
    /\ nextPoolId = 2
    /\ lastOp = Call("init", NoRequest, 0, 0, Null, << >>)
    /\ inflight = Idle

Score(request) ==
    /\ lastOp' = Call("score", request, request.id,
                      calculateRouteCompatibility(pools[1], request), Null, << >>)
    /\ UNCHANGED <<activeRequests, pools, nextPoolId, inflight>>

NextScore == \E request \in ScoreRequests : Score(request)

SpecScore == InitScore /\ [][NextScore]_vars

\* ------------------------------------------- the calls, statement by statement
\* addToExistingPool and removeFromPool change the membership of a pool first
\* (187, 339) and its derived fields, or the registry, after (190-196,
\* 342-350).  The two halves are steps here, with `inflight` the call between
\* them, on the registries of SpecOps; a first half leaves its name, "push"
\* or "splice", in lastOp.
\* Whether a call can be suspended between two statements for another call or
\* a query to run: the methods are synchronous (no await, no callback).
Suspends_Async == TRUE

Suspends == FALSE

\* The requests of SpecSteps: two ids on one route.
StepRequests == [id : {1, 2}, pickup : {1}, dropoff : {3}, createdAt : {0}]

Running(op, poolId, request, id) ==
    <<[op |-> op, pool |-> poolId, req |-> request, id |-> id]>>

\* 44, 184-187: the request is registered and pushed onto the pool.
PushStep(i, request) ==
    /\ inflight = Idle
    /\ i \in 1 .. Len(pools)
    /\ Len(pools[i].requests) < 3
    /\ Members(pools) < MaxMembers
    /\ activeRequests' = (request.id :> request) @@ activeRequests
    /\ pools' = [pools EXCEPT ![i].requests = Append(@, request)]
    /\ inflight' = Running("addPoolRequest", pools[i].id, request, request.id)
    /\ lastOp' = Call("push", request, request.id, 0, Null, << >>)
    /\ nextPoolId' = nextPoolId

\* 190-197, 50: the derived fields follow and the call returns.
JoinRefreshStep ==
    /\ inflight # Idle
    /\ inflight[1].op = "addPoolRequest"
    /\ LET i == PoolIndex(pools, inflight[1].pool)
       IN  pools' = [pools EXCEPT ![i] = RefreshJoined(pools[i], inflight[1].req)]
    /\ lastOp' = Call("join", inflight[1].req, inflight[1].id, inflight[1].pool,
                      Null, << >>)
    /\ inflight' = Idle
    /\ UNCHANGED <<activeRequests, nextPoolId>>

\* 333-339: the id leaves activeRequests and the first pool that holds it; a
\* call for an id no pool holds returns here.
SpliceStep(requestId) ==
    /\ inflight = Idle
    /\ activeRequests' = activeRequestsDelete(activeRequests, requestId)
    /\ nextPoolId' = nextPoolId
    /\ LET i == FirstPoolWith(pools, requestId)
       IN  IF i = 0
           THEN /\ pools' = pools
                /\ inflight' = Idle
                /\ lastOp' = Call("removeFromPool", NoRequest, requestId, 0,
                                  Null, << >>)
           ELSE /\ pools' = [pools EXCEPT ![i].requests =
                                 RemoveAt(@, RequestIndex(pools[i], requestId))]
                /\ inflight' = Running("removeFromPool", pools[i].id, NoRequest,
                                       requestId)
                /\ lastOp' = Call("splice", NoRequest, requestId, 0, Null, << >>)

\* 342-351: the emptied pool is deleted, or the derived fields follow.
RemoveRefreshStep ==
    /\ inflight # Idle
    /\ inflight[1].op = "removeFromPool"
    /\ LET i == PoolIndex(pools, inflight[1].pool)
       IN  pools' = IF Len(pools[i].requests) = 0
                    THEN RemoveAt(pools, i)
                    ELSE [pools EXCEPT ![i] = RefreshShrunk(pools[i])]
    /\ lastOp' = Call("removeFromPool", NoRequest, inflight[1].id, 1, Null, << >>)
    /\ inflight' = Idle
    /\ UNCHANGED <<activeRequests, nextPoolId>>

\* createNewPool stores a finished pool in one statement (216).
StepsAdd(request) ==
    /\ inflight = Idle
    /\ OpsAdd(request)

StepsGetPool(poolId) ==
    /\ inflight = Idle \/ Suspends
    /\ GetPool(poolId)

StepsGetActivePools ==
    /\ inflight = Idle \/ Suspends
    /\ GetActivePools

NextSteps ==
    \/ \E request \in StepRequests : StepsAdd(request)
    \/ \E i \in PoolIds, request \in StepRequests : PushStep(i, request)
    \/ JoinRefreshStep
    \/ \E requestId \in {1, 2} : SpliceStep(requestId)
    \/ RemoveRefreshStep
    \/ \E poolId \in PoolIds : StepsGetPool(poolId)
    \/ StepsGetActivePools

SpecSteps == Init /\ [][NextSteps]_vars

\* ------------------------------------------------ the calls, run concurrently
\* MaxCallers callers run addPoolRequest and removeFromPool against one
\* service.  What a call does to one pool is a step no other caller's step
\* divides: the join (183-198), the create (203-218), the removal from the
\* first pool that holds the id with the deletion of the emptied pool
\* (337-351).  The search of addPoolRequest (44-47) is a step of its own,
\* before the join or create it leads to; no lock spans two pools.
Callers == 1 .. MaxCallers

Waiting == [at |-> "idle", req |-> NoRequest, sel |-> 0]

\* The callers between their search and their join or create.
Searched == {c \in Callers : inflight[c].at = "searched"}

InitConc ==
    /\ activeRequests = << >>
    /\ pools = << >>
    /\ nextPoolId = 1
    /\ lastOp = Call("init", NoRequest, 0, 0, Null, << >>)
    /\ inflight = [c \in Callers |-> Waiting]

\* 44-47: the request is registered and the pools are searched; sel is the id
\* of the pool found, 0 for null.
Search(c, request) ==
    /\ inflight[c].at = "idle"
    /\ nextPoolId + Cardinality(Searched) <= MaxPoolId
    /\ activeRequests' = (request.id :> request) @@ activeRequests
    /\ LET matchingPool == findMatchingPool(pools, request)
       IN  inflight' = [inflight EXCEPT ![c] =
               [at |-> "searched", req |-> request,
                sel |-> IF matchingPool = 0 THEN 0 ELSE pools[matchingPool].id]]
    /\ lastOp' = Call("search", request, request.id, 0, Null, << >>)
    /\ UNCHANGED <<pools, nextPoolId>>

\* 49-53: the join of the pool the search found, or the create.
Mutate(c) ==
    /\ inflight[c].at = "searched"
    /\ inflight' = [inflight EXCEPT ![c] = Waiting]
    /\ activeRequests' = activeRequests
    /\ LET request == inflight[c].req
           i == PoolIndex(pools, inflight[c].sel)
       IN  IF inflight[c].sel # 0
           THEN IF i = 0
                THEN \* throw new Error('Pool not found') (185)
                     /\ pools' = pools
                     /\ nextPoolId' = nextPoolId
                     /\ lastOp' = Call("addPoolRequest", request, request.id,
                                       Thrown, Null, << >>)
                ELSE /\ pools' = addToExistingPool(pools, i, request)
                     /\ nextPoolId' = nextPoolId
                     /\ lastOp' = Call("addPoolRequest", request, request.id,
                                       inflight[c].sel, Null, << >>)
           ELSE LET poolId == newPoolId(pools, nextPoolId)
                IN  /\ pools' = poolsSet(pools, createNewPool(poolId, request))
                    /\ nextPoolId' = nextPoolId + 1
                    /\ lastOp' = Call("addPoolRequest", request, request.id,
                                      poolId, Null, << >>)

ConcRemove(c, requestId) ==
    /\ inflight[c].at = "idle"
    /\ RemoveFromPool(requestId)

NextConc ==
    \/ \E c \in Callers, request \in OpsRequests : Search(c, request)
    \/ \E c \in Callers : Mutate(c)
    \/ \E c \in Callers, requestId \in {1, 2} : ConcRemove(c, requestId)

SpecConc == InitConc /\ [][NextConc]_vars

\* ------------------------------------------------- the optimizer, driven
\* optimizeRoute applied to the membership of a pool of 2 .. MaxRouteMembers
\* requests: two ids, pickups A and C, dropoffs C, N and F, two creation
\* times.  The pool starts with its members pushed and its route not built.
RouteRequests ==
    [id : {1, 2}, pickup : Pickups, dropoff : {2, 3, 4}, createdAt : {0, 1}]

InitRoute ==
    /\ activeRequests = << >>
    /\ \E n \in 2 .. MaxRouteMembers :
           \E members \in [1 .. n -> RouteRequests] :
               pools = <<[createNewPool(1, members[1]) EXCEPT
                              !.requests = members, !.route = << >>]>>
    /\ nextPoolId = 2
    /\ lastOp = Call("init", NoRequest, 0, 0, Null, << >>)
    /\ inflight = Idle

OptimizeRoute ==
    /\ lastOp.op = "init"
    /\ pools' = [pools EXCEPT ![1].route = optimizeRoute(pools[1].requests)]
    /\ lastOp' = Call("optimizeRoute", NoRequest, 0, 0, Null, << >>)
    /\ UNCHANGED <<activeRequests, nextPoolId, inflight>>

NextRoute == OptimizeRoute

SpecRoute == InitRoute /\ [][NextRoute]_vars

\* ------------------------------------------------- the round trip, driven
\* addPoolRequest(r) for an id the registry does not hold, with
\* removeFromPool(r.id) as the next call, on registries that adds, joins and
\* removals built.  Between the two calls `inflight` keeps the request and
\* the registry the pair started from.
TripAdd(request) ==
    /\ inflight = Idle
    /\ Members(pools) < MaxMembers
    /\ request.id \notin DOMAIN activeRequests
    /\ \A i \in 1 .. Len(pools) : ~HasMember(pools[i], request.id)
    /\ AddPoolRequestCall(request)
    /\ inflight' = <<[op |-> "roundTrip", pool |-> 0, req |-> request,
                      id |-> request.id, pools |-> pools,
                      activeRequests |-> activeRequests]>>

TripRemove ==
    /\ inflight # Idle
    /\ activeRequests' = activeRequestsDelete(activeRequests, inflight[1].id)
    /\ pools' = removedFromPools(pools, inflight[1].id)
    /\ nextPoolId' = nextPoolId
    /\ lastOp' = Call("roundTrip", inflight[1].req, inflight[1].id,
                      IF FirstPoolWith(pools, inflight[1].id) # 0 THEN 1 ELSE 0,
                      Null, << >>)
    /\ inflight' = Idle

TripOtherAdd(request) ==
    /\ inflight = Idle
    /\ OpsAdd(request)

TripOtherJoin(i, request) ==
    /\ inflight = Idle
    /\ JoinPool(i, request)

TripOtherRemove(requestId) ==
    /\ inflight = Idle
    /\ RemoveFromPool(requestId)

NextTrip ==
    \/ \E request \in StepRequests : TripAdd(request)
    \/ TripRemove
    \/ \E request \in StepRequests : TripOtherAdd(request)
    \/ \E i \in PoolIds, request \in StepRequests : TripOtherJoin(i, request)
    \/ \E requestId \in {1, 2} : TripOtherRemove(requestId)

SpecTrip == Init /\ [][NextTrip]_vars

\* ------------------------------------------ the other fields of a request
\* addPoolRequest and removeFromPool with requests that carry maxWaitTime
\* (minutes), packageWeight and customerId (4-20) as well: one id, one
\* pickup, a near and a far dropoff, two values of each of the three fields.
FieldRequests ==
    [id : {1}, pickup : {1}, dropoff : Dropoffs, createdAt : {0},
     maxWaitTime : {15, 30}, packageWeight : {1, 2}, customerId : {1, 2}]

FieldsAdd(request) == AddPoolRequest(request)

FieldsRemove(requestId) == RemoveFromPool(requestId)

NextFields ==
    \/ \E request \in FieldRequests : FieldsAdd(request)
    \/ \E requestId \in {1} : FieldsRemove(requestId)

SpecFields == Init /\ [][NextFields]_vars

\* ================================================================ the claims
\* What the claims say of a pool and a candidate.
ScoreThreshold == 7 * (ScoreScale \div 10)

DropoffScore(member, request) ==
    proximityScore(calculateDistance(member.dropoff, request.dropoff))

PickupScore(member, request) ==
    proximityScore(calculateDistance(member.pickup, request.pickup))

\* Capacity, score and cost as the claim C1 words them (no delay filter).
ClaimQualifies(pool, request) ==
    /\ Len(pool.requests) < 3
    /\ calculateRouteCompatibility(pool, request) >= ScoreThreshold
    /\ calculatePoolCost(pool, request) * 10 <= pool.costPerCustomer * 11

IsAdd == lastOp'.op = "addPoolRequest"
IsRemove == lastOp'.op = "removeFromPool"

\* The call created a pool for its request: the registry gained exactly one
\* pool, the last, whose only member is the request.
CreatedPoolFor(request) ==
    /\ Len(pools') = Len(pools) + 1
    /\ SubSeq(pools', 1, Len(pools)) = pools
    /\ pools'[Len(pools')].requests = <<request>>
    /\ pools'[Len(pools')].id = lastOp'.ret

\* C1: addRequest(r), with P the first pool that has fewer than 3 members, a
\* score of at least 0.70 and a projected cost within 10% of its current cost,
\* merges r into P: P has one more member, r is in P, no pool was created.
C1_MergesIntoQualifyingPool ==
    [][IsAdd =>
         \A i \in 1 .. Len(pools) :
             (/\ ClaimQualifies(pools[i], lastOp'.req)
              /\ \A j \in 1 .. i - 1 : ~ClaimQualifies(pools[j], lastOp'.req))
             => /\ Len(pools') = Len(pools)
                /\ pools'[i].requests = Append(pools[i].requests, lastOp'.req)
                /\ lastOp'.ret = pools[i].id]_vars

\* C2: in every state the four calls reach, every pool of the registry has
\* between 1 and 3 members.
C2_Capacity ==
    \A i \in 1 .. Len(pools) :
        1 <= Len(pools[i].requests) /\ Len(pools[i].requests) <= 3

\* A registry that still holds two pools after a removal deleted one.
C2_Witness ==
    /\ lastOp.op = "removeFromPool"
    /\ Len(pools) >= 2
    /\ nextPoolId - 1 > Len(pools)

\* C3: no call leaves a pool with zero members in the registry, and a
\* removal that takes the last member of a pool deletes the pool in that call.
C3_NonEmpty ==
    [][/\ \A i \in 1 .. Len(pools') : Len(pools'[i].requests) > 0
       /\ IsRemove =>
            \A i \in 1 .. Len(pools) :
                (i = FirstPoolWith(pools, lastOp'.id) /\ Len(pools[i].requests) = 1)
                => /\ pools[i].id \notin PoolKeys(pools')
                   /\ Len(pools') = Len(pools) - 1]_vars

\* A pool was created, and the removal of its only member emptied the registry.
C3_Witness ==
    /\ lastOp.op = "removeFromPool"
    /\ pools = << >>
    /\ nextPoolId > 1
    /\ lastOp.id \notin DOMAIN activeRequests

\* C4: totalDistance, estimatedTime and costPerCustomer are a function of the
\* ordered membership alone: two pools that hold the same members in the same
\* order, whatever calls built them, have the same three figures.
C4_DerivedFromMembership ==
    \A i, j \in 1 .. Len(pools) :
        pools[i].requests = pools[j].requests
        => /\ pools[i].totalDistance = pools[j].totalDistance
           /\ pools[i].estimatedTime = pools[j].estimatedTime
           /\ pools[i].costPerCustomer = pools[j].costPerCustomer

\* C5: a request added to an empty registry yields one pool of one member
\* whose costPerCustomer is 50 + 10 * distance(pickup, dropoff).
C5_SoloCost ==
    [][(IsAdd /\ pools = << >>) =>
         /\ Len(pools') = 1
         /\ pools'[1].requests = <<lastOp'.req>>
         /\ pools'[1].costPerCustomer =
                50 * RupeeUnits
                    + calculateDistance(lastOp'.req.pickup, lastOp'.req.dropoff)
                          * ((10 * RupeeUnits) \div Metres)]_vars

\* C6: every pool with exactly one member has savings 0, a pool just created
\* and a pool that shrank to one member alike, whatever its costPerCustomer.
C6_SingleMemberSavings ==
    \A i \in 1 .. Len(pools) :
        Len(pools[i].requests) = 1 => pools[i].savings = 0

\* A pool that shrank to one member: its cost is the removal's 10 * distance,
\* not the 100 of a pool just created.
C6_Witness ==
    /\ lastOp.op = "removeFromPool"
    /\ \E i \in 1 .. Len(pools) :
           /\ Len(pools[i].requests) = 1
           /\ pools[i].costPerCustomer # 100 * RupeeUnits
           /\ pools[i].costPerCustomer # 0
           /\ pools[i].savings = 0

\* C7: the removal of a pool's only member deletes the pool: getPool of its
\* id returns not-found and getActivePools does not hold it; an id that was
\* handed out and is no longer in the registry never returns to it; and
\* getPool(id) is not-found exactly when id is no key of the registry.
C7_DeletedPoolStaysDeleted ==
    [][/\ IsRemove =>
            \A i \in 1 .. Len(pools) :
                (i = FirstPoolWith(pools, lastOp'.id) /\ Len(pools[i].requests) = 1)
                => /\ getPool(pools', pools[i].id) = Null
                   /\ \A k \in 1 .. Len(getActivePools(pools')) :
                          getActivePools(pools')[k].id # pools[i].id
       /\ \A id \in PoolIds :
            (id < nextPoolId /\ getPool(pools, id) = Null)
            => getPool(pools', id) = Null
       /\ \A id \in PoolIds :
            (getPool(pools', id) = Null) <=> (id \notin PoolKeys(pools'))
       /\ lastOp'.op = "getPool" =>
            ((lastOp'.retPool = Null) <=> (lastOp'.id \notin PoolKeys(pools)))]_vars

\* getPool returned not-found for the id of a deleted pool, after a later
\* call had created another pool.
C7_Witness ==
    /\ lastOp.op = "getPool"
    /\ lastOp.id < nextPoolId
    /\ lastOp.retPool = Null
    /\ \E i \in 1 .. Len(pools) : pools[i].id > lastOp.id

\* C8: addRequest never adds its request to a pool that has 3 members: such a
\* pool is left as it was, and the request went to a pool that had room and
\* passed the filters, or to a new pool.
C8_FullPoolNeverJoined ==
    [][IsAdd =>
         /\ \A i \in 1 .. Len(pools) :
                Len(pools[i].requests) >= 3
                => /\ i <= Len(pools') /\ pools'[i] = pools[i]
                   /\ lastOp'.ret # pools[i].id
         /\ \/ CreatedPoolFor(lastOp'.req)
            \/ \E i \in 1 .. Len(pools) :
                   /\ Qualifies(pools[i], lastOp'.req)
                   /\ lastOp'.ret = pools[i].id
                   /\ Len(pools') = Len(pools)
                   /\ pools'[i].requests = Append(pools[i].requests, lastOp'.req)]_vars

\* A request that scores at least 0.70 against a pool of 3 members, and at a
\* projected cost within 10%, was added: the pool is not the one it went to.
C8_Witness ==
    /\ lastOp.op = "addPoolRequest"
    /\ \E i \in 1 .. Len(pools) :
           /\ Len(pools[i].requests) = 3
           /\ pools[i].id # lastOp.ret
           /\ calculateRouteCompatibility(pools[i], lastOp.req) >= ScoreThreshold
           /\ calculatePoolCost(pools[i], lastOp.req) * 10
                  < pools[i].costPerCustomer * 11

\* The request's dropoff is far from every member's: dropoff score 0 against
\* each member of each pool.
FarDropoff(ps, request) ==
    \A i \in 1 .. Len(ps) :
        \A k \in 1 .. Len(ps[i].requests) :
            DropoffScore(ps[i].requests[k], request) = 0

\* C9 as stated: a request with dropoff score 0 against every member of every
\* pool scores below 0.70 against every pool, and addRequest creates a new
\* pool for it.
C9_FarDropoffFailsThreshold ==
    [][(IsAdd /\ FarDropoff(pools, lastOp'.req)) =>
         /\ \A i \in 1 .. Len(pools) :
                calculateRouteCompatibility(pools[i], lastOp'.req) < ScoreThreshold
         /\ CreatedPoolFor(lastOp'.req)]_vars

\* C9 as amended: such a request scores at most 0.70 against every pool, and
\* below 0.70 against a pool unless its pickup and its bearing are those of
\* every member of the pool; addRequest creates a new pool for it.
C9_FarDropoffScoresAtMostThreshold ==
    [][(IsAdd /\ FarDropoff(pools, lastOp'.req)) =>
         /\ \A i \in 1 .. Len(pools) :
                /\ calculateRouteCompatibility(pools[i], lastOp'.req) <= ScoreThreshold
                /\ calculateRouteCompatibility(pools[i], lastOp'.req) = ScoreThreshold
                   => \A k \in 1 .. Len(pools[i].requests) :
                          /\ PickupScore(pools[i].requests[k], lastOp'.req) = ProxScale
                          /\ calculateDirectionSimilarity(pools[i].requests[k],
                                                          lastOp'.req) = DirScale
         /\ CreatedPoolFor(lastOp'.req)]_vars

\* A request was added whose dropoff is far from the member of an existing
\* pool and whose score against that pool is exactly 0.70; it got a new pool.
C9_Witness ==
    /\ lastOp.op = "addPoolRequest"
    /\ Len(pools) >= 2
    /\ pools[Len(pools)].id = lastOp.ret
    /\ pools[Len(pools)].requests = <<lastOp.req>>
    /\ FarDropoff(SubSeq(pools, 1, Len(pools) - 1), lastOp.req)
    /\ \E i \in 1 .. Len(pools) - 1 :
           calculateRouteCompatibility(pools[i], lastOp.req) = ScoreThreshold

\* C10: the compatibility score of a pool with at least one member and a
\* candidate request lies in [0, 1].
C10_ScoreBounded ==
    lastOp.op = "score" => (0 <= lastOp.ret /\ lastOp.ret <= ScoreScale)

\* A pool of three members scored strictly between 0 and 1, one member out of
\* reach of the candidate's pickup (a proximity score clamped at 0).
C10_Witness ==
    /\ lastOp.op = "score"
    /\ Len(pools[1].requests) = 3
    /\ 0 < lastOp.ret /\ lastOp.ret < ScoreScale
    /\ \E k \in 1 .. 3 :
           calculateDistance(pools[1].requests[k].pickup, lastOp.req.pickup) > ProxScale

InAnyPool(ps, requestId) == \E i \in 1 .. Len(ps) : HasMember(ps[i], requestId)

\* C11: addRequest never throws: for every registry, with every pool full
\* too, it returns the id of a pool that is in the registry when the call
\* returns and holds the request.
C11_AddReturnsPoolOfRequest ==
    [][IsAdd =>
         /\ lastOp'.ret # Thrown
         /\ PoolIndex(pools', lastOp'.ret) # 0
         /\ \E k \in 1 .. Len(getPool(pools', lastOp'.ret).requests) :
                getPool(pools', lastOp'.ret).requests[k] = lastOp'.req]_vars

\* A request was added while every other pool of the registry was full.
C11_Witness ==
    /\ lastOp.op = "addPoolRequest"
    /\ Len(pools) >= 2
    /\ \A i \in 1 .. Len(pools) :
           pools[i].id # lastOp.ret => Len(pools[i].requests) = 3
    /\ \E k \in 1 .. Len(getPool(pools, lastOp.ret).requests) :
           getPool(pools, lastOp.ret).requests[k] = lastOp.req

\* C12: removeRequest of an id that is a member of no pool raises no error
\* and leaves the registry as it was: the same pool ids in the same order,
\* each pool with the same membership and the same derived fields.
C12_UnknownIdNoOp ==
    [][(IsRemove /\ ~InAnyPool(pools, lastOp'.id)) =>
         /\ pools' = pools
         /\ lastOp'.ret # Thrown]_vars

\* A removal that spliced nothing, on a registry that holds pools.
C12_Witness ==
    /\ lastOp.op = "removeFromPool"
    /\ lastOp.ret = 0
    /\ Len(pools) >= 2
    /\ ~InAnyPool(pools, lastOp.id)

\* C13: REMOVED is terminal: an id that removeRequest has taken out of its
\* pool, and that no pool holds, is a member of no pool after the next call.
C13_RemovedIsTerminal ==
    [][(/\ lastOp.op = "removeFromPool"
        /\ lastOp.ret = 1
        /\ ~InAnyPool(pools, lastOp.id))
       => ~InAnyPool(pools', lastOp.id)]_vars

\* The route and the distance of a pool belong to its membership: two stops
\* a member, at the members' pickups and dropoffs, and the route's length.
FollowsMembership(pool) ==
    /\ Len(pool.route) = 2 * Len(pool.requests)
    /\ \A k \in 1 .. Len(pool.requests) :
           /\ \E n \in 1 .. Len(pool.route) :
                  pool.route[n].loc = pool.requests[k].pickup
           /\ \E n \in 1 .. Len(pool.route) :
                  pool.route[n].loc = pool.requests[k].dropoff
    /\ pool.totalDistance = calculateTotalDistance(pool.route)

\* C14: a call runs to its end before a query starts: every pool a query
\* returns has at least one member, and a route and a distance that follow
\* its membership.
C14_QueriesSeeFinishedCalls ==
    /\ lastOp.op = "getPool" /\ lastOp.retPool # Null
           => /\ Len(lastOp.retPool.requests) >= 1
              /\ FollowsMembership(lastOp.retPool)
    /\ lastOp.op = "getActivePools"
           => \A i \in 1 .. Len(lastOp.retPools) :
                  /\ Len(lastOp.retPools[i].requests) >= 1
                  /\ FollowsMembership(lastOp.retPools[i])

\* A query returned a pool of two members, which the two steps of a join or
\* of a removal had made, next to a pool of one.
C14_Witness ==
    /\ lastOp.op = "getActivePools"
    /\ inflight = Idle
    /\ \E i, j \in 1 .. Len(lastOp.retPools) :
           /\ Len(lastOp.retPools[i].requests) = 2
           /\ Len(lastOp.retPools[j].requests) = 1

PassesAllFour(pool, request) ==
    /\ Len(pool.requests) < 3
    /\ calculateAdditionalTime(pool, request) <= 15 * MilliMin
    /\ calculateRouteCompatibility(pool, request) >= ScoreThreshold
    /\ calculatePoolCost(pool, request) * 10 <= pool.costPerCustomer * 11

C18_JoinCost ==
    [][lastOp'.op = "join" =>
         LET pool == getPool(pools', lastOp'.ret)
         IN  pool.costPerCustomer =
                 (50 * RupeeUnits
                      + pool.totalDistance * ((10 * RupeeUnits) \div Metres))
                     \div Len(pool.requests)]_vars

\* C19: after a removal that leaves the pool at least one member, the pool's
\* route, totalDistance and estimatedTime are computed again from the members
\* left and its costPerCustomer is (50 + 10 * totalDistance) / memberCount.
C19_RemovalCost ==
    [][(IsRemove /\ FirstPoolWith(pools, lastOp'.id) # 0
          /\ Len(pools[FirstPoolWith(pools, lastOp'.id)].requests) > 1) =>
         LET pool == pools'[FirstPoolWith(pools, lastOp'.id)]
         IN  /\ pool.route = optimizeRoute(pool.requests)
             /\ pool.totalDistance = calculateTotalDistance(pool.route)
             /\ pool.estimatedTime =
                    calculateEstimatedTime(pool.route, Len(pool.requests))
             /\ pool.costPerCustomer =
                    (50 * RupeeUnits
                         + pool.totalDistance * ((10 * RupeeUnits) \div Metres))
                        \div Len(pool.requests)]_vars

\* C20: after any addRequest or removeRequest, every pool of the registry, a
\* pool just created with one member too, has an estimatedTime of
\* 2 * totalDistance + 10 * memberCount minutes.
C20_EstimatedTime ==
    [][(IsAdd \/ IsRemove) =>
         \A i \in 1 .. Len(pools') :
             pools'[i].estimatedTime =
                 pools'[i].totalDistance * ((2 * MilliMin) \div Metres)
                     + 10 * Len(pools'[i].requests) * MilliMin]_vars

\* C21: when no pool qualifies, addRequest creates exactly one pool: its only
\* member is the request, its route is the request's pickup and dropoff, its
\* totalDistance their distance, its estimatedTime 30, its costPerCustomer 100
\* and its savings 0; the registry gains that pool and nothing else changes.
C21_NewPoolFields ==
    [][(IsAdd /\ \A i \in 1 .. Len(pools) : ~Qualifies(pools[i], lastOp'.req)) =>
         /\ CreatedPoolFor(lastOp'.req)
         /\ LET pool == pools'[Len(pools')]
                request == lastOp'.req
            IN  /\ Len(pool.route) = 2
                /\ pool.route[1].loc = request.pickup
                /\ pool.route[2].loc = request.dropoff
                /\ pool.totalDistance =
                       calculateDistance(request.pickup, request.dropoff)
                /\ pool.estimatedTime = 30 * MilliMin
                /\ pool.costPerCustomer = 100 * RupeeUnits
                /\ pool.savings = 0]_vars

\* An add created the third pool of the registry, for a request to the far
\* dropoff, with the placeholder time and fare.
C21_Witness ==
    /\ lastOp.op = "addPoolRequest"
    /\ Len(pools) = 3
    /\ pools[3].id = lastOp.ret
    /\ pools[3].requests = <<lastOp.req>>
    /\ lastOp.req.dropoff = 4
    /\ pools[3].estimatedTime = 30 * MilliMin
    /\ pools[3].costPerCustomer = 100 * RupeeUnits

\* C22: in every state the calls reach, every pool's route is the optimizer's
\* output for its members and its totalDistance is the sum of the distances
\* between consecutive stops of that route.
C22_RouteAndDistanceFresh ==
    \A i \in 1 .. Len(pools) :
        /\ pools[i].route = optimizeRoute(pools[i].requests)
        /\ pools[i].totalDistance = calculateTotalDistance(pools[i].route)

\* A removal left a pool of two members, on different routes, next to a
\* pool of one.
C22_Witness ==
    /\ lastOp.op = "removeFromPool"
    /\ lastOp.ret = 1
    /\ \E i, j \in 1 .. Len(pools) :
           /\ Len(pools[i].requests) = 2
           /\ pools[i].requests[1].dropoff # pools[i].requests[2].dropoff
           /\ Len(pools[j].requests) = 1

\* The one-to-one maps of 1 .. n onto itself.
Orderings(n) ==
    {f \in [1 .. n -> 1 .. n] : \A a, b \in 1 .. n : f[a] = f[b] => a = b}

\* C23: the route of n >= 2 requests has 2n stops; the first n are the
\* members' pickups by ascending creation time, members of equal creation
\* time in membership order; the last n are the members' dropoffs, each once.
C23_PickupsThenDropoffs ==
    lastOp.op = "optimizeRoute" =>
        LET requests == pools[1].requests
            route == pools[1].route
            n == Len(requests)
        IN  /\ Len(route) = 2 * n
            /\ \E f \in Orderings(n) :
                   /\ \A k \in 1 .. n : route[k] = PickupStop(requests[f[k]])
                   /\ \A k, l \in 1 .. n :
                          k < l =>
                              \/ requests[f[k]].createdAt < requests[f[l]].createdAt
                              \/ /\ requests[f[k]].createdAt = requests[f[l]].createdAt
                                 /\ f[k] < f[l]
            /\ \E g \in Orderings(n) :
                   \A k \in 1 .. n : route[n + k] = DropoffStop(requests[g[k]])

\* A route of three requests whose pickups are not in membership order: the
\* first member was created last.
C23_Witness ==
    /\ lastOp.op = "optimizeRoute"
    /\ Len(pools[1].requests) = 3
    /\ pools[1].requests[1].createdAt = 1
    /\ pools[1].requests[2].createdAt = 0
    /\ pools[1].requests[3].createdAt = 0
    /\ pools[1].requests[1].pickup # pools[1].requests[2].pickup
    /\ pools[1].route[1] = PickupStop(pools[1].requests[2])
    /\ pools[1].route[3] = PickupStop(pools[1].requests[1])

\* C24: the dropoffs follow the last pickup in greedy nearest-neighbour
\* order: each is at the least distance from the stop before it among the
\* dropoffs not yet visited, the earliest member winning a tie; there are
\* exactly n of them, and the requests determine the sequence.
C24_GreedyDropoffs ==
    lastOp.op = "optimizeRoute" =>
        LET requests == pools[1].requests
            route == pools[1].route
            n == Len(requests)
        IN  /\ Len(route) = 2 * n
            /\ \E g \in Orderings(n) :
                   /\ \A k \in 1 .. n : route[n + k] = DropoffStop(requests[g[k]])
                   /\ \A k \in 1 .. n :
                          \A j \in 1 .. n :
                              (j # g[k] /\ \A l \in 1 .. k - 1 : g[l] # j) =>
                                  LET here == route[n + k - 1].loc
                                      chosen == calculateDistance(here, requests[g[k]].dropoff)
                                      other == calculateDistance(here, requests[j].dropoff)
                                  IN  chosen < other \/ (chosen = other /\ g[k] < j)
            /\ route = optimizeRoute(requests)

\* A route of three requests with a tie: the first two members share a
\* dropoff, the third has a nearer one, and the first member's dropoff comes
\* before the second's.
C24_Witness ==
    /\ lastOp.op = "optimizeRoute"
    /\ Len(pools[1].requests) = 3
    /\ pools[1].requests[1].id # pools[1].requests[2].id
    /\ pools[1].requests[1].dropoff = 4
    /\ pools[1].requests[2].dropoff = 4
    /\ pools[1].requests[3].dropoff = 3
    /\ pools[1].route[4] = DropoffStop(pools[1].requests[3])
    /\ pools[1].route[5] = DropoffStop(pools[1].requests[1])
    /\ pools[1].route[6] = DropoffStop(pools[1].requests[2])

\* C25: the additional delay is 2 * 5 + 10 = 20 minutes for every pool and
\* request, above the limit of 15, so findMatchingPool returns null in every
\* state: every addPoolRequest creates a pool, and every pool of every state
\* has exactly one member.
C25_EveryPoolSingleton ==
    [][/\ \A i \in 1 .. Len(pools), request \in Requests :
              calculateAdditionalTime(pools[i], request) = (2 * 5 + 10) * MilliMin
       /\ \A request \in Requests : findMatchingPool(pools, request) = 0
       /\ IsAdd => CreatedPoolFor(lastOp'.req)
       /\ \A i \in 1 .. Len(pools') : Len(pools'[i].requests) = 1]_vars

\* An add created a pool next to a pool of one request on the same route,
\* with the same id too, instead of joining it.
C25_Witness ==
    /\ lastOp.op = "addPoolRequest"
    /\ Len(pools) = 2
    /\ pools[2].id = lastOp.ret
    /\ pools[1].requests = <<lastOp.req>>
    /\ pools[2].requests = <<lastOp.req>>

\* The ids of the members of the pools.
\* How many members of the pools have that id.
RECURSIVE Holders(_, _)
Holders(ps, requestId) ==
    IF ps = << >> THEN 0
    ELSE Cardinality({k \in 1 .. Len(ps[1].requests) :
                          ps[1].requests[k].id = requestId})
             + Holders(Tail(ps), requestId)

\* The keys of activeRequests are the members' ids, each the id of one member.
KeysAreMembers(active, ps) ==
    /\ \A requestId \in ReqIds :
           requestId \in DOMAIN active <=> InAnyPool(ps, requestId)
    /\ \A requestId \in ReqIds : Holders(ps, requestId) <= 1

\* C26: while every request added has an id the registry does not hold, the
\* keys of activeRequests are the ids of the pools' members and each id is a
\* member of exactly one pool: a call that starts in such a state, an add of
\* an id held by no pool and no key or a removal, ends in such a state.
C26_KeysAreMemberIds ==
    [][(/\ KeysAreMembers(activeRequests, pools)
        /\ IsAdd \/ IsRemove
        /\ IsAdd => /\ lastOp'.id \notin DOMAIN activeRequests
                    /\ ~InAnyPool(pools, lastOp'.id))
       => KeysAreMembers(activeRequests', pools')]_vars

\* Two requests of different ids were added, one was removed and added again:
\* the registry holds both, each in its own pool and under its key.
C26_Witness ==
    /\ lastOp.op = "addPoolRequest"
    /\ nextPoolId = 4
    /\ Len(pools) = 2
    /\ DOMAIN activeRequests = {1, 2}
    /\ KeysAreMembers(activeRequests, pools)

\* C27: after removeFromPool(id) returns no pool has a member of that id,
\* whatever calls came before, two adds of the same id among them.
C27_RemovedFromEveryPool ==
    [][IsRemove => ~InAnyPool(pools', lastOp'.id)]_vars

\* The pools of a registry other than the pool of that id, in order.
OtherPools(ps, poolId) == SelectSeq(ps, LAMBDA pool : pool.id # poolId)

\* C28: a call changes at most one pool: every other pool keeps its id, its
\* members and its derived fields, and the other pools keep their order; the
\* two halves of a join or of a removal change the same pool; getPool and
\* getActivePools change nothing.
C28_Frame ==
    [][IF lastOp'.op \in {"getPool", "getActivePools"}
       THEN /\ pools' = pools
            /\ activeRequests' = activeRequests
            /\ nextPoolId' = nextPoolId
       ELSE \E poolId \in 1 .. nextPoolId :
                /\ OtherPools(pools', poolId) = OtherPools(pools, poolId)
                /\ inflight # Idle => poolId = inflight[1].pool
                /\ inflight' # Idle => poolId = inflight'[1].pool]_vars

\* A removal took a member out of the first pool, of three, and left two;
\* the second pool holds a member of the same id and is as it was.
C28_Witness ==
    /\ lastOp.op = "removeFromPool"
    /\ lastOp.ret = 1
    /\ inflight = Idle
    /\ Len(pools) = 2
    /\ Len(pools[1].requests) = 2
    /\ ~HasMember(pools[1], lastOp.id)
    /\ HasMember(pools[2], lastOp.id)

\* C29: addPoolRequest(r) for an id the registry does not hold, followed at
\* once by removeFromPool(r.id), leaves the registry as it was before the
\* add: the same pools in the same order, each with the same members and the
\* same derived fields, and the same activeRequests.
C29_RoundTrip ==
    [][lastOp'.op = "roundTrip" =>
         /\ pools' = inflight[1].pools
         /\ activeRequests' = inflight[1].activeRequests]_vars

\* A round trip ended on a registry of a pool of two and a pool of one, all
\* of the other id.
C29_Witness ==
    /\ lastOp.op = "roundTrip"
    /\ lastOp.ret = 1
    /\ Len(pools) = 2
    /\ Len(pools[1].requests) = 2
    /\ DOMAIN activeRequests # {}
    /\ ~InAnyPool(pools, lastOp.id)

\* Two requests that differ in maxWaitTime, packageWeight and customerId only.
SameButFields(r1, r2) ==
    /\ r1.id = r2.id
    /\ r1.pickup = r2.pickup
    /\ r1.dropoff = r2.dropoff
    /\ r1.createdAt = r2.createdAt

\* C30: what addPoolRequest decides does not depend on the request's
\* maxWaitTime, packageWeight or customerId: when it joined a pool, every
\* request that differs in those fields only would join that pool in the same
\* state, and when it created a pool, every such request would get a new one.
C30_DecisionIgnoresFields ==
    [][IsAdd =>
         \A r2 \in FieldRequests :
             SameButFields(lastOp'.req, r2) =>
                 IF CreatedPoolFor(lastOp'.req)
                 THEN findMatchingPool(pools, r2) = 0
                 ELSE /\ findMatchingPool(pools, r2) # 0
                      /\ pools[findMatchingPool(pools, r2)].id = lastOp'.ret]_vars

\* Requests on one route with waits of 15 and of 30 minutes, and different
\* weights and customers, were added one after the other: each has its pool.
C30_Witness ==
    /\ lastOp.op = "addPoolRequest"
    /\ Len(pools) = 2
    /\ Len(pools[1].requests) = 1
    /\ Len(pools[2].requests) = 1
    /\ SameButFields(pools[1].requests[1], pools[2].requests[1])
    /\ pools[1].requests[1].maxWaitTime = 15
    /\ pools[2].requests[1].maxWaitTime = 30
    /\ pools[1].requests[1].packageWeight # pools[2].requests[1].packageWeight
    /\ pools[1].requests[1].customerId # pools[2].requests[1].customerId

====
